---- MODULE Spec2Model ----
(***************************************************************************)
(* Task state store of MoneyPrinterTurbo (app/services/state.py): the      *)
(* in-process backend MemoryState and the persisted backend RedisState.    *)
(*                                                                         *)
(* Texts (Python str / redis byte strings) are sequences of one-character  *)
(* strings, so that str() and _convert_to_original_type are computed.      *)
(* Python values are records [k, n, s, l]: k the type ("int", "str",       *)
(* "none", "bool", "list"), n the integer, s the text, l the elements.     *)
(***************************************************************************)
EXTENDS Integers, Sequences, FiniteSets, TLC

(* ------------------------------ bounds --------------------------------- *)
MaxClock == 1
ProgressSlack == 1
MaxPage == 3
MaxPageSize == 3

(* ------------------------- program constants --------------------------- *)
TASK_STATE_PENDING == 0
TASK_STATE_PROCESSING == 1
TASK_STATE_COMPLETED == 2
TASK_STATE_FAILED == 3
MaxProgress == 100

(* --------------------------- Python values ----------------------------- *)
PyInt(i) == [k |-> "int", n |-> i, s |-> <<>>, l |-> <<>>]
PyStr(t) == [k |-> "str", n |-> 0, s |-> t, l |-> <<>>]
PyNone == [k |-> "none", n |-> 0, s |-> <<>>, l |-> <<>>]
PyBool(b) == [k |-> "bool", n |-> IF b THEN 1 ELSE 0, s |-> <<>>, l |-> <<>>]
PyList(es) == [k |-> "list", n |-> 0, s |-> <<>>, l |-> es]

\* Python truthiness of a value (used by `if kwargs["error"]`).
Truthy(v) ==
    CASE v.k = "int" -> v.n # 0
      [] v.k = "bool" -> v.n # 0
      [] v.k = "str" -> v.s # <<>>
      [] v.k = "list" -> v.l # <<>>
      [] OTHER -> FALSE

(* ------------------------------ texts ---------------------------------- *)
DigitChars == <<"0", "1", "2", "3", "4", "5", "6", "7", "8", "9">>
IsDigitChar(c) == \E d \in 1..10 : DigitChars[d] = c
DigitVal(c) == (CHOOSE d \in 1..10 : DigitChars[d] = c) - 1

RECURSIVE NatText(_)
NatText(i) == IF i < 10 THEN <<DigitChars[i + 1]>>
              ELSE NatText(i \div 10) \o <<DigitChars[(i % 10) + 1]>>

\* str(int)
IntText(i) == IF i < 0 THEN <<"-">> \o NatText(-i) ELSE NatText(i)

RECURSIVE NatVal(_)
NatVal(t) == IF t = <<>> THEN 0
             ELSE 10 * NatVal(SubSeq(t, 1, Len(t) - 1)) + DigitVal(t[Len(t)])

\* str.isdigit()
IsDigit(t) == t # <<>> /\ \A i \in 1..Len(t) : IsDigitChar(t[i])

T_None == <<"N", "o", "n", "e">>
T_True == <<"T", "r", "u", "e">>
T_False == <<"F", "a", "l", "s", "e">>

RECURSIVE Join(_)
Join(ts) == IF ts = <<>> THEN <<>>
            ELSE IF Len(ts) = 1 THEN ts[1]
            ELSE ts[1] \o <<",", " ">> \o Join(Tail(ts))

\* repr() of a list element
Repr(v) ==
    CASE v.k = "int" -> IntText(v.n)
      [] v.k = "str" -> <<"'">> \o v.s \o <<"'">>
      [] v.k = "bool" -> IF v.n = 1 THEN T_True ELSE T_False
      [] OTHER -> T_None

\* str(value), as written by hset(task_id, field, str(value))
Str(v) ==
    CASE v.k = "int" -> IntText(v.n)
      [] v.k = "str" -> v.s
      [] v.k = "bool" -> IF v.n = 1 THEN T_True ELSE T_False
      [] v.k = "list" -> <<"[">> \o Join([i \in 1..Len(v.l) |-> Repr(v.l[i])]) \o <<"]">>
      [] OTHER -> T_None

(* ------------------------- ast.literal_eval ---------------------------- *)
\* The literal grammar over the characters the model writes: decimal
\* integers with one optional sign, None/True/False, quoted strings and
\* flat lists of these.  Anything else raises ValueError/SyntaxError.
Failed == [k |-> "fail", n |-> 0, s |-> <<>>, l |-> <<>>]

\* a Python decimal integer token: no leading zero unless all zeros
IsDecimal(t) == IsDigit(t) /\ (t[1] # "0" \/ \A i \in 1..Len(t) : t[i] = "0")

IsQuoted(t) ==
    /\ Len(t) >= 2
    /\ t[1] \in {"'", "\""}
    /\ t[Len(t)] = t[1]
    /\ \A i \in 2..(Len(t) - 1) : t[i] \notin {t[1], "\\"}

RECURSIVE Strip(_)
Strip(t) == IF t # <<>> /\ t[1] = " " THEN Strip(Tail(t))
            ELSE IF t # <<>> /\ t[Len(t)] = " " THEN Strip(SubSeq(t, 1, Len(t) - 1))
            ELSE t

EvalScalar(t0) ==
    LET t == Strip(t0) IN
    IF IsDecimal(t) THEN PyInt(NatVal(t))
    ELSE IF Len(t) >= 2 /\ t[1] = "-" /\ IsDecimal(Strip(Tail(t))) THEN PyInt(-NatVal(Strip(Tail(t))))
    ELSE IF Len(t) >= 2 /\ t[1] = "+" /\ IsDecimal(Strip(Tail(t))) THEN PyInt(NatVal(Strip(Tail(t))))
    ELSE IF t = T_None THEN PyNone
    ELSE IF t = T_True THEN PyBool(TRUE)
    ELSE IF t = T_False THEN PyBool(FALSE)
    ELSE IF IsQuoted(t) THEN PyStr(SubSeq(t, 2, Len(t) - 1))
    ELSE Failed

\* position of the first comma outside quotes, 0 if none
RECURSIVE CommaAt(_, _, _)
CommaAt(t, i, q) ==
    IF i > Len(t) THEN 0
    ELSE IF q = "" /\ t[i] = "," THEN i
    ELSE IF q = "" /\ t[i] \in {"'", "\""} THEN CommaAt(t, i + 1, t[i])
    ELSE IF q # "" /\ t[i] = q THEN CommaAt(t, i + 1, "")
    ELSE CommaAt(t, i + 1, q)

\* the elements of a list display; <<Failed>> marks a syntax error
RECURSIVE EvalElems(_)
EvalElems(t) ==
    IF Strip(t) = <<>> THEN <<>>
    ELSE LET c == CommaAt(t, 1, "")
             head == EvalScalar(IF c = 0 THEN t ELSE SubSeq(t, 1, c - 1))
             rest == IF c = 0 THEN <<>> ELSE EvalElems(SubSeq(t, c + 1, Len(t)))
         IN  IF head = Failed \/ (rest # <<>> /\ rest[1] = Failed) THEN <<Failed>>
             ELSE <<head>> \o rest

literal_eval(t0) ==
    LET t == Strip(t0) IN
    IF Len(t) >= 2 /\ t[1] = "[" /\ t[Len(t)] = "]"
    THEN LET es == EvalElems(SubSeq(t, 2, Len(t) - 1))
         IN  IF es # <<>> /\ es[1] = Failed THEN Failed ELSE PyList(es)
    ELSE EvalScalar(t)

\* RedisState._convert_to_original_type
convert_to_original_type(t) ==
    IF literal_eval(t) # Failed THEN literal_eval(t)
    ELSE IF IsDigit(t) THEN PyInt(NatVal(t))
    ELSE PyStr(t)

(* ------------------------------ inputs --------------------------------- *)
\* task ids are texts (they are redis keys and the value of field task_id)
TaskIds == {<<"a">>, <<"b">>}
PageTaskIds == {<<"a">>, <<"b">>, <<"c">>}
ProgressInputs ==
    ((0 - ProgressSlack)..(0 - 1)) \cup {0, 50}
        \cup ((MaxProgress + 1)..(MaxProgress + ProgressSlack))
\* the (state, progress) arguments of a call; defaulted: state was omitted
DefaultArgs == {[defaulted |-> TRUE, state |-> TASK_STATE_PROCESSING, progress |-> 0]}
CallArgs ==
    {[defaulted |-> TRUE, state |-> TASK_STATE_PROCESSING, progress |-> p] : p \in ProgressInputs}
        \cup {[defaulted |-> FALSE, state |-> st, progress |-> 0] :
                 st \in {TASK_STATE_COMPLETED, TASK_STATE_FAILED}}

\* **kwargs of update_task: a dict from field names to values.  The names
\* task_id, state and progress are bound to the parameters, never to kwargs.
T_boom == <<"b", "o", "o", "m">>
Kw0 == [f \in {} |-> PyNone]
KwError == [f \in {"error"} |-> PyStr(T_boom)]
KwCreated == [f \in {"created_at"} |-> PyStr(<<"x">>)]
KwTwo == [f \in {"script", "videos"} |->
             IF f = "script" THEN PyStr(<<"1", "2">>) ELSE PyList(<<PyStr(<<"w">>)>>)]
KwargChoices == {Kw0, KwError, KwCreated, KwTwo}

(* ------------------------------- dicts --------------------------------- *)
Put(d, f, v) == [x \in (DOMAIN d) \cup {f} |-> IF x = f THEN v ELSE d[x]]
\* for key, value in kwargs.items(): d[key] = value
Merge(d, kw) == [x \in (DOMAIN d) \cup (DOMAIN kw) |-> IF x \in DOMAIN kw THEN kw[x] ELSE d[x]]
Remove(m, key) == [x \in (DOMAIN m) \ {key} |-> m[x]]
EmptyDict == [f \in {} |-> PyNone]
Absent == [found |-> FALSE, rec |-> EmptyDict]
Found(d) == [found |-> TRUE, rec |-> d]

\* s[a:b] of Python, negative indices included
PySlice(s, a, b) ==
    LET n == Len(s)
        lo == IF a < 0 THEN (IF n + a < 0 THEN 0 ELSE n + a) ELSE (IF a > n THEN n ELSE a)
        hi == IF b < 0 THEN (IF n + b < 0 THEN 0 ELSE n + b) ELSE (IF b > n THEN n ELSE b)
    IN  IF lo < hi THEN SubSeq(s, lo + 1, hi) ELSE <<>>

\* datetime.now().isoformat() of clock reading t
T_stamp == <<"2", "0", "2", "4", "T">>
isoformat(t) == PyStr(T_stamp \o NatText(t))
\* the clock reading a stored timestamp was taken at (-1: not a timestamp)
ReadingOf(v) ==
    IF \E t \in 0..(MaxClock + 1) : isoformat(t) = v
    THEN CHOOSE t \in 0..(MaxClock + 1) : isoformat(t) = v
    ELSE 0 - 1

\* the module never binds the name `logger`: every logger.* call raises
\* NameError, also the one in the except clause, so the call raises
logger_defined == FALSE
LogRaises == ~logger_defined

\* the two stores, the clock, and the caller's last call with what it returned
VARIABLES mem_keys, mem_tasks, redis_db, redis_keys, now, call, listing
\* MemoryState.lock, and a writer and a reader thread inside their calls
VARIABLES lock, writer, reader
\* llm.py: a call of _generate_response, and a call of generate_script or
\* generate_terms, each with its inputs and what it did so far
VARIABLES tr, gen
\* threads calling into the stores, each with its position in the call, and
\* the StateManager: its tasks, their insertion order, and its lock
VARIABLES pool, mgr
threads == <<lock, writer, reader>>
llm == <<tr, gen>>
locks == <<pool, mgr>>
vars == <<mem_keys, mem_tasks, redis_db, redis_keys, now, call, listing, lock, writer, reader, tr, gen, pool, mgr>>

(* --------------------------- MemoryState ------------------------------- *)
\* progress = int(progress); if progress > 100: progress = 100
ClampProgress(p) == IF p > MaxProgress THEN MaxProgress ELSE p

\* the record created for an unseen task_id, clock readings t1 <= t2
MemoryState_created(task_id, state, progress, t1, t2) ==
    [f \in {"task_id", "state", "progress", "error", "created_at", "updated_at"} |->
        CASE f = "task_id" -> PyStr(task_id)
          [] f = "state" -> PyInt(state)
          [] f = "progress" -> PyInt(ClampProgress(progress))
          [] f = "error" -> PyNone
          [] f = "created_at" -> isoformat(t1)
          [] OTHER -> isoformat(t2)]

\* the record after update_task, clock readings t1 <= t2 <= t3
MemoryState_updated(tasks, task_id, state, progress, kwargs, t1, t2, t3) ==
    LET rec == IF task_id \in DOMAIN tasks THEN tasks[task_id]
               ELSE MemoryState_created(task_id, state, progress, t1, t2)
    IN  Put(Merge(rec, kwargs), "updated_at", isoformat(t3))

\* does update_task raise (after the writes, inside the locked region)?
MemoryState_update_raises(kwargs) ==
    /\ "error" \in DOMAIN kwargs
    /\ Truthy(kwargs["error"])
    /\ LogRaises

MemoryState_get_task(tasks, task_id) ==
    IF task_id \in DOMAIN tasks THEN Found(tasks[task_id]) ELSE Absent

\* the slice with a 0-indexed page
MemoryState_get_all_tasks_page0(keys, tasks, page, page_size) ==
    LET start == page * page_size
        end == start + page_size
        all == [i \in 1..Len(keys) |-> tasks[keys[i]]]
    IN  [tasks |-> PySlice(all, start, end), total |-> Len(all)]

MemoryState_get_all_tasks(keys, tasks, page, page_size) ==
    LET start == (page - 1) * page_size
        end == start + page_size
        all == [i \in 1..Len(keys) |-> tasks[keys[i]]]
    IN  [tasks |-> PySlice(all, start, end), total |-> Len(all)]

(* ---------------------------- RedisState ------------------------------- *)
\* fields = {"task_id": ..., "state": ..., "progress": ..., **kwargs}
RedisState_fields(task_id, state, progress, kwargs) ==
    Merge([f \in {"task_id", "state", "progress"} |->
              CASE f = "task_id" -> PyStr(task_id)
                [] f = "state" -> PyInt(state)
                [] OTHER -> PyInt(ClampProgress(progress))],
          kwargs)

\* a write that replaces the hash by the one field
HSet_replacing(db, key, field, text) ==
    [x \in (DOMAIN db) \cup {key} |-> IF x = key THEN Put(EmptyDict, field, text) ELSE db[x]]

\* hset(key, field, text) on the hash store
HSet(db, key, field, text) ==
    [x \in (DOMAIN db) \cup {key} |->
        IF x = key THEN Put(IF key \in DOMAIN db THEN db[key] ELSE EmptyDict, field, text)
        ELSE db[x]]

\* for field, value in fields.items(): hset(task_id, field, str(value))
RECURSIVE HSetAll(_, _, _, _)
HSetAll(db, key, fields, todo) ==
    IF todo = {} THEN db
    ELSE LET f == CHOOSE x \in todo : TRUE
         IN  HSetAll(HSet(db, key, f, Str(fields[f])), key, fields, todo \ {f})

RedisState_updated(db, task_id, state, progress, kwargs) ==
    LET fields == RedisState_fields(task_id, state, progress, kwargs)
    IN  HSetAll(db, task_id, fields, DOMAIN fields)

\* hgetall + decode; an absent key is the empty hash
\* get_task without the `if not task_data: return None` of line 152
RedisState_get_task_unchecked(db, task_id) ==
    IF task_id \notin DOMAIN db THEN Found(EmptyDict)
    ELSE Found([f \in DOMAIN db[task_id] |-> convert_to_original_type(db[task_id][f])])

RedisState_get_task(db, task_id) ==
    IF task_id \notin DOMAIN db THEN Absent
    ELSE Found([f \in DOMAIN db[task_id] |-> convert_to_original_type(db[task_id][f])])

\* redis SCAN: the keys in the backend's enumeration order, cut into
\* batches; the cursor is 0 with the last batch.  Batches may be empty.
MaxBatches == 3
\* a new key takes any place in the enumeration order of the keyspace
InsertAnywhere(keys, key) ==
    {SubSeq(keys, 1, i) \o <<key>> \o SubSeq(keys, i + 1, Len(keys)) : i \in 0..Len(keys)}
SplitsOf(p) ==
    UNION {{[j \in 1..m |-> SubSeq(p, (IF j = 1 THEN 0 ELSE cut[j - 1]) + 1, cut[j])] :
               cut \in {c \in [1..m -> 0..Len(p)] :
                           /\ c[m] = Len(p)
                           /\ \A j \in 1..(m - 1) : c[j] <= c[j + 1]}} :
           m \in 1..MaxBatches}

\* for key in keys[...]: tasks.append(task); if len(tasks) >= page_size: break
RECURSIVE AppendTasks(_, _, _, _)
AppendTasks(db, tasks, keys, page_size) ==
    IF keys = <<>> THEN tasks
    ELSE LET tasks2 == Append(tasks, RedisState_get_task(db, keys[1]).rec)
         IN  IF Len(tasks2) >= page_size THEN tasks2
             ELSE AppendTasks(db, tasks2, Tail(keys), page_size)

\* the while True loop of get_all_tasks, at its i-th scan call
RECURSIVE RedisScanLoop(_, _, _, _, _, _, _)
RedisScanLoop(db, batches, i, tasks, total, start, page_size) ==
    LET end == start + page_size
        keys == batches[i]
        cursor == IF i = Len(batches) THEN 0 ELSE i
        total2 == total + Len(keys)
        from == IF start - total2 > 0 THEN start - total2 ELSE 0
        tasks2 == IF total2 > start
                  THEN AppendTasks(db, tasks, PySlice(keys, from, end - total2), page_size)
                  ELSE tasks
    IN  IF cursor = 0 \/ Len(tasks2) >= page_size
        THEN [tasks |-> tasks2, total |-> total2]
        ELSE RedisScanLoop(db, batches, i + 1, tasks2, total2, start, page_size)

RedisState_get_all_tasks(db, batches, page, page_size) ==
    RedisScanLoop(db, batches, 1, <<>>, 0, (page - 1) * page_size, page_size)

(* ------------------------------ actions -------------------------------- *)
NoCall == [op |-> "none", task_id |-> <<>>, state |-> 0, defaulted |-> FALSE,
           progress |-> 0, kwargs |-> Kw0, mem_pre |-> Absent, red_pre |-> Absent,
           mem_ret |-> Absent, red_ret |-> Absent, mem_raised |-> FALSE,
           red_raised |-> FALSE, fresh |-> FALSE]
\* a thread outside any call
IdleWriter == [pc |-> "idle", task_id |-> <<>>, state |-> 0, progress |-> 0,
               fields |-> Kw0, todo |-> <<>>, done |-> {}, pre |-> EmptyDict,
               raised |-> FALSE]
IdleReader == [pc |-> "idle", task_id |-> <<>>, refs |-> <<>>, obs |-> Absent,
               torn |-> FALSE, w_pre |-> EmptyDict, w_fields |-> Kw0, w_done |-> {}]
NoListing == [page |-> 0, page_size |-> 0, order |-> <<>>, batches |-> <<>>,
              mem |-> [tasks |-> <<>>, total |-> 0],
              red |-> [tasks |-> <<>>, total |-> 0]]

\* the threads that call into the stores
Threads == {"t1", "t2"}
\* a thread outside any store call
IdleThread == [pc |-> "idle", op |-> "", task_id |-> <<>>, kwargs |-> Kw0,
               max_age |-> 0, raised |-> FALSE]
\* StateManager.__init__
NoTasks == [keys |-> <<>>, tasks |-> [x \in {} |-> EmptyDict], lock |-> "free"]
\* no call of _generate_response under way
IdleTransport == [pc |-> "idle", provider |-> "", model |-> "", providers |-> <<>>,
                  behaviour |-> <<>>, kind |-> "", text |-> <<>>, log |-> <<>>]
\* no call of generate_script or generate_terms under way
IdleGen == [pc |-> "idle", op |-> "", providers |-> <<>>, behaviour |-> <<>>,
            i |-> 0, attempts |-> 0, entered |-> 0, calls |-> 0, sleeps |-> 0,
            caught |-> <<>>, final_script |-> <<>>, response |-> <<>>,
            search_terms |-> PyList(<<>>), ret |-> PyNone, exc |-> ""]

Init ==
    /\ mem_keys = <<>>
    /\ mem_tasks = [x \in {} |-> EmptyDict]
    /\ redis_db = [x \in {} |-> EmptyDict]
    /\ redis_keys = <<>>
    /\ now = 0
    /\ call = NoCall
    /\ listing = NoListing
    /\ lock = "free"
    /\ writer = IdleWriter
    /\ reader = IdleReader
    /\ tr = IdleTransport
    /\ gen = IdleGen
    /\ pool = [t \in Threads |-> IdleThread]
    /\ mgr = NoTasks

\* MemoryState.update_task; t1, t2, t3 are the three datetime.now() readings
MemoryState_update_task(task_id, state, progress, kwargs, t1, t2, t3) ==
    /\ mem_tasks' = [x \in (DOMAIN mem_tasks) \cup {task_id} |->
                        IF x = task_id
                        THEN MemoryState_updated(mem_tasks, task_id, state, progress, kwargs, t1, t2, t3)
                        ELSE mem_tasks[x]]
    /\ mem_keys' = IF task_id \in DOMAIN mem_tasks THEN mem_keys ELSE Append(mem_keys, task_id)
    /\ now' = t3

RedisState_update_task(task_id, state, progress, kwargs) ==
    /\ redis_db' = RedisState_updated(redis_db, task_id, state, progress, kwargs)
    /\ redis_keys' \in IF task_id \in DOMAIN redis_db THEN {redis_keys}
                       ELSE InsertAnywhere(redis_keys, task_id)

\* the same update_task call on both backends; the clock may advance up
\* to `clockmax` between two readings
UpdateTaskWith(ids, args, kws, clockmax) ==
    /\ call = NoCall
    /\ \E task_id \in ids, arg \in args, kwargs \in kws :
       \E t1 \in now..clockmax : \E t2 \in t1..clockmax : \E t3 \in t2..clockmax :
           /\ task_id \in DOMAIN mem_tasks => (t1 = now /\ t2 = now)
           /\ MemoryState_update_task(task_id, arg.state, arg.progress, kwargs, t1, t2, t3)
           /\ RedisState_update_task(task_id, arg.state, arg.progress, kwargs)
           /\ call' = [NoCall EXCEPT !.op = "update_task", !.task_id = task_id,
                          !.state = arg.state, !.defaulted = arg.defaulted,
                          !.progress = arg.progress, !.kwargs = kwargs,
                          !.mem_pre = MemoryState_get_task(mem_tasks, task_id),
                          !.red_pre = RedisState_get_task(redis_db, task_id),
                          !.fresh = (task_id \notin DOMAIN mem_tasks),
                          !.mem_raised = MemoryState_update_raises(kwargs)]
           /\ listing' = NoListing
           /\ UNCHANGED threads
    /\ UNCHANGED <<llm, locks>>

\* update_task(task_id, state, progress, **kwargs) on the first task id
UpdateTask == UpdateTaskWith({<<"a">>}, CallArgs, KwargChoices, MaxClock)
\* update_task(task_id), every argument defaulted, on the other task ids
UpdateTaskPlain == UpdateTaskWith(TaskIds \ {<<"a">>}, DefaultArgs, {Kw0}, MaxClock)

\* MemoryState.delete_task: logger.info after the del raises NameError
MemoryState_delete_task(task_id) ==
    /\ mem_tasks' = Remove(mem_tasks, task_id)
    /\ mem_keys' = SelectSeq(mem_keys, LAMBDA x : x # task_id)

RedisState_delete_task(task_id) ==
    /\ redis_db' = Remove(redis_db, task_id)
    /\ redis_keys' = SelectSeq(redis_keys, LAMBDA x : x # task_id)

DeleteTaskWith(ids) ==
    /\ call = NoCall
    /\ \E task_id \in ids :
           /\ MemoryState_delete_task(task_id)
           /\ RedisState_delete_task(task_id)
           /\ call' = [NoCall EXCEPT !.op = "delete_task", !.task_id = task_id,
                          !.mem_pre = MemoryState_get_task(mem_tasks, task_id),
                          !.red_pre = RedisState_get_task(redis_db, task_id),
                          !.mem_raised = (task_id \in DOMAIN mem_tasks /\ LogRaises)]
           /\ listing' = NoListing
           /\ UNCHANGED threads
           /\ UNCHANGED now
    /\ UNCHANGED <<llm, locks>>

DeleteTask == DeleteTaskWith(TaskIds)

GetTask ==
    /\ call = NoCall
    /\ \E task_id \in TaskIds :
           /\ call' = [NoCall EXCEPT !.op = "get_task", !.task_id = task_id,
                          !.mem_pre = MemoryState_get_task(mem_tasks, task_id),
                          !.red_pre = RedisState_get_task(redis_db, task_id),
                          !.mem_ret = MemoryState_get_task(mem_tasks, task_id),
                          !.red_ret = RedisState_get_task(redis_db, task_id)]
           /\ listing' = NoListing
           /\ UNCHANGED threads
           /\ UNCHANGED <<mem_keys, mem_tasks, redis_db, redis_keys, now>>
           /\ UNCHANGED threads
    /\ UNCHANGED <<llm, locks>>

\* the caller is done with what the call returned and goes on
Proceed ==
    /\ call # NoCall
    /\ call' = NoCall
    /\ listing' = NoListing
    /\ UNCHANGED <<mem_keys, mem_tasks, redis_db, redis_keys, now>>
    /\ UNCHANGED threads
    /\ UNCHANGED <<llm, locks>>

Next == UpdateTask \/ UpdateTaskPlain \/ DeleteTask \/ GetTask \/ Proceed

Spec == Init /\ [][Next]_vars

(* ------------------- the store under get_all_tasks --------------------- *)
UpdateTaskPage == UpdateTaskWith(PageTaskIds, DefaultArgs, {Kw0}, now)
DeleteTaskPage == DeleteTaskWith(PageTaskIds)

GetAllTasks ==
    /\ call = NoCall
    /\ \E page \in 1..MaxPage, page_size \in 1..MaxPageSize :
       \E batches \in SplitsOf(redis_keys) :
           /\ listing' = [page |-> page, page_size |-> page_size, order |-> redis_keys,
                          batches |-> batches,
                          mem |-> MemoryState_get_all_tasks(mem_keys, mem_tasks, page, page_size),
                          red |-> RedisState_get_all_tasks(redis_db, batches, page, page_size)]
           /\ call' = [NoCall EXCEPT !.op = "get_all_tasks"]
           /\ UNCHANGED <<mem_keys, mem_tasks, redis_db, redis_keys, now>>
           /\ UNCHANGED threads
    /\ UNCHANGED <<llm, locks>>

NextPage == UpdateTaskPage \/ DeleteTaskPage \/ GetAllTasks \/ Proceed

SpecPage == Init /\ [][NextPage]_vars

(* ------------------- threads: the in-process backend ------------------- *)
ThreadTaskIds == {<<"a">>}
ThreadArgs == {a \in CallArgs : a.progress = 0}
ThreadKwargs == {Kw0, KwError, KwTwo}
\* the orders in which a caller may pass the keyword arguments
Orderings(S) == {p \in [1..Cardinality(S) -> S] : \A i, j \in 1..Cardinality(S) : p[i] = p[j] => i = j}
sequential == <<call, listing>>

\* a thread enters MemoryState.update_task (lines 46-48 run before the lock)
MW_Call ==
    /\ writer.pc = "idle"
    /\ \E task_id \in ThreadTaskIds, arg \in ThreadArgs, kwargs \in ThreadKwargs :
       \E order \in Orderings(DOMAIN kwargs) :
           writer' = [IdleWriter EXCEPT !.pc = "acquire", !.task_id = task_id,
                         !.state = arg.state, !.progress = ClampProgress(arg.progress),
                         !.fields = kwargs, !.todo = order]
    /\ UNCHANGED <<mem_keys, mem_tasks, redis_db, redis_keys, now, lock, reader, sequential>>
    /\ UNCHANGED <<llm, locks>>

\* with self.lock:
MW_Acquire ==
    /\ writer.pc = "acquire"
    /\ lock = "free"
    /\ lock' = "writer"
    /\ writer' = [writer EXCEPT !.pc = "create",
                     !.pre = IF writer.task_id \in DOMAIN mem_tasks
                             THEN mem_tasks[writer.task_id] ELSE EmptyDict]
    /\ UNCHANGED <<mem_keys, mem_tasks, redis_db, redis_keys, now, reader, sequential>>
    /\ UNCHANGED <<llm, locks>>

\* if task_id not in self._tasks: self._tasks[task_id] = {...}
MW_Create ==
    /\ writer.pc = "create"
    /\ IF writer.task_id \in DOMAIN mem_tasks
       THEN UNCHANGED <<mem_keys, mem_tasks, now>>
       ELSE \E t1 \in now..MaxClock : \E t2 \in t1..MaxClock :
               /\ mem_tasks' = [x \in (DOMAIN mem_tasks) \cup {writer.task_id} |->
                                   IF x = writer.task_id
                                   THEN MemoryState_created(writer.task_id, writer.state,
                                                            writer.progress, t1, t2)
                                   ELSE mem_tasks[x]]
               /\ mem_keys' = Append(mem_keys, writer.task_id)
               /\ now' = t2
    /\ writer' = [writer EXCEPT !.pc = IF writer.todo = <<>> THEN "stamp" ELSE "merge"]
    /\ UNCHANGED <<redis_db, redis_keys, lock, reader, sequential>>
    /\ UNCHANGED <<llm, locks>>

\* one iteration of: for key, value in kwargs.items(): record[key] = value
MW_Merge ==
    /\ writer.pc = "merge"
    /\ mem_tasks' = [mem_tasks EXCEPT ![writer.task_id] =
                        Put(@, Head(writer.todo), writer.fields[Head(writer.todo)])]
    /\ writer' = [writer EXCEPT !.todo = Tail(writer.todo),
                     !.done = writer.done \cup {Head(writer.todo)},
                     !.pc = IF Tail(writer.todo) = <<>> THEN "stamp" ELSE "merge"]
    /\ UNCHANGED <<mem_keys, redis_db, redis_keys, now, lock, reader, sequential>>
    /\ UNCHANGED <<llm, locks>>

\* self._tasks[task_id]["updated_at"] = datetime.now().isoformat()
MW_Stamp ==
    /\ writer.pc = "stamp"
    /\ \E t3 \in now..MaxClock :
           /\ mem_tasks' = [mem_tasks EXCEPT ![writer.task_id] = Put(@, "updated_at", isoformat(t3))]
           /\ now' = t3
    /\ writer' = [writer EXCEPT !.pc = "log"]
    /\ UNCHANGED <<mem_keys, redis_db, redis_keys, lock, reader, sequential>>
    /\ UNCHANGED <<llm, locks>>

\* the log calls, then the with block releases the lock, raising or not
MW_Log ==
    /\ writer.pc = "log"
    /\ writer' = [writer EXCEPT !.pc = "idle", !.raised = MemoryState_update_raises(writer.fields)]
    /\ lock' = "free"
    /\ UNCHANGED <<mem_keys, mem_tasks, redis_db, redis_keys, now, reader, sequential>>
    /\ UNCHANGED <<llm, locks>>

\* a thread enters MemoryState.get_task
MR_GetTask ==
    /\ reader.pc = "idle"
    /\ \E task_id \in ThreadTaskIds : reader' = [IdleReader EXCEPT !.pc = "acquire", !.task_id = task_id]
    /\ UNCHANGED <<mem_keys, mem_tasks, redis_db, redis_keys, now, lock, writer, sequential>>
    /\ UNCHANGED <<llm, locks>>

MR_Acquire ==
    /\ reader.pc = "acquire"
    /\ lock = "free"
    /\ lock' = "reader"
    /\ reader' = [reader EXCEPT !.pc = "locked"]
    /\ UNCHANGED <<mem_keys, mem_tasks, redis_db, redis_keys, now, writer, sequential>>
    /\ UNCHANGED <<llm, locks>>

\* return self._tasks.get(task_id, None): the dict itself, not a copy
MR_Return ==
    /\ reader.pc = "locked"
    /\ reader' = [reader EXCEPT !.pc = "use",
                     !.refs = IF reader.task_id \in DOMAIN mem_tasks
                              THEN <<reader.task_id>> ELSE <<>>]
    /\ lock' = "free"
    /\ UNCHANGED <<mem_keys, mem_tasks, redis_db, redis_keys, now, writer, sequential>>
    /\ UNCHANGED <<llm, locks>>

\* MemoryState.get_all_tasks takes no lock: list(self._tasks.values())
MR_GetAllTasks ==
    /\ reader.pc = "idle"
    /\ \E page_size \in 1..MaxPageSize :
           reader' = [IdleReader EXCEPT !.pc = "use", !.refs = PySlice(mem_keys, 0, page_size)]
    /\ UNCHANGED <<mem_keys, mem_tasks, redis_db, redis_keys, now, lock, writer, sequential>>
    /\ UNCHANGED <<llm, locks>>

\* the caller reads the record it was handed
MR_Use ==
    /\ reader.pc = "use"
    /\ reader' = [reader EXCEPT !.pc = "idle",
                     !.obs = IF reader.refs = <<>> THEN Absent
                             ELSE Found(mem_tasks[reader.refs[1]]),
                     !.w_pre = writer.pre, !.w_fields = writer.fields, !.w_done = writer.done,
                     !.torn = /\ reader.refs # <<>>
                              /\ writer.pc = "merge"
                              /\ writer.task_id = reader.refs[1]
                              /\ writer.done # {}]
    /\ UNCHANGED <<mem_keys, mem_tasks, redis_db, redis_keys, now, lock, writer, sequential>>
    /\ UNCHANGED <<llm, locks>>

NextMemThreads ==
    \/ MW_Call \/ MW_Acquire \/ MW_Create \/ MW_Merge \/ MW_Stamp \/ MW_Log
    \/ MR_GetTask \/ MR_Acquire \/ MR_Return \/ MR_GetAllTasks \/ MR_Use

SpecMemThreads == Init /\ [][NextMemThreads]_vars

(* -------------------- threads: the persisted backend ------------------- *)
\* a thread enters RedisState.update_task and builds `fields`
RW_Call ==
    /\ writer.pc = "idle"
    /\ \E task_id \in ThreadTaskIds, arg \in ThreadArgs, kwargs \in ThreadKwargs :
       \E order \in Orderings(DOMAIN kwargs) :
           writer' = [IdleWriter EXCEPT !.pc = "hset", !.task_id = task_id,
                         !.state = arg.state, !.progress = ClampProgress(arg.progress),
                         !.fields = RedisState_fields(task_id, arg.state, arg.progress, kwargs),
                         !.todo = <<"task_id", "state", "progress">> \o order,
                         !.pre = IF task_id \in DOMAIN redis_db THEN redis_db[task_id]
                                 ELSE EmptyDict]
    /\ UNCHANGED <<mem_keys, mem_tasks, redis_db, redis_keys, now, lock, reader, sequential>>
    /\ UNCHANGED <<llm, locks>>

\* one iteration of: for field, value in fields.items(): hset(...)
RW_HSet ==
    /\ writer.pc = "hset"
    /\ redis_db' = HSet(redis_db, writer.task_id, Head(writer.todo),
                        Str(writer.fields[Head(writer.todo)]))
    /\ redis_keys' \in IF writer.task_id \in DOMAIN redis_db THEN {redis_keys}
                       ELSE InsertAnywhere(redis_keys, writer.task_id)
    /\ writer' = [writer EXCEPT !.todo = Tail(writer.todo),
                     !.done = writer.done \cup {Head(writer.todo)},
                     !.pc = IF Tail(writer.todo) = <<>> THEN "idle" ELSE "hset"]
    /\ UNCHANGED <<mem_keys, mem_tasks, now, lock, reader, sequential>>
    /\ UNCHANGED <<llm, locks>>

\* a thread enters RedisState.get_task
RR_GetTask ==
    /\ reader.pc = "idle"
    /\ \E task_id \in ThreadTaskIds : reader' = [IdleReader EXCEPT !.pc = "hgetall", !.task_id = task_id]
    /\ UNCHANGED <<mem_keys, mem_tasks, redis_db, redis_keys, now, lock, writer, sequential>>
    /\ UNCHANGED <<llm, locks>>

\* hgetall, decode, return
RR_HGetAll ==
    /\ reader.pc = "hgetall"
    /\ reader' = [reader EXCEPT !.pc = "idle",
                     !.obs = RedisState_get_task(redis_db, reader.task_id),
                     !.w_pre = writer.pre, !.w_fields = writer.fields, !.w_done = writer.done,
                     !.torn = /\ writer.pc = "hset"
                              /\ writer.task_id = reader.task_id
                              /\ writer.done # {}]
    /\ UNCHANGED <<mem_keys, mem_tasks, redis_db, redis_keys, now, lock, writer, sequential>>
    /\ UNCHANGED <<llm, locks>>

NextRedisThreads == RW_Call \/ RW_HSet \/ RR_GetTask \/ RR_HGetAll

SpecRedisThreads == Init /\ [][NextRedisThreads]_vars

(* ------------------------- llm.py: the transport ----------------------- *)
\* longest prefix of a provider's behaviour that is chosen freely; the
\* provider repeats the last reply of the prefix from then on
MaxBehaviour == 2

_max_retries == 5
max_retries == 3

\* the text "当日额度已消耗完" as one symbol of a reply
T_quota == <<"<quota>">>
T_Error == <<"E", "r", "r", "o", "r", ":", " ">>
T_hi == <<"h", "i">>
T_terms == <<"[", "\"", "a", "\"", "]">>
T_ints == <<"[", "1", "]">>

\* `sub in t` of Python strings
Contains(t, sub) ==
    \E i \in 1..(Len(t) - Len(sub) + 1) : SubSeq(t, i, i + Len(sub) - 1) = sub

\* what one adapter call does: raise, or return a text (empty included)
Raises == [raises |-> TRUE, text |-> <<>>]
Replies(t) == [raises |-> FALSE, text |-> t]
ReplyChoices ==
    {Raises, Replies(<<>>), Replies(T_hi), Replies(T_quota), Replies(T_terms), Replies(T_ints)}
BehaviourChoices == UNION {[1..n -> ReplyChoices] : n \in 1..MaxBehaviour}
\* the reply to the n-th adapter call
ReplyAt(behaviour, n) == behaviour[IF n > Len(behaviour) THEN Len(behaviour) ELSE n]

\* config.LLM_PROVIDERS after config.toml is loaded: the three providers,
\* the api_key of openai and the base_url of pollinations empty or set
LLM_PROVIDERS(api_key, base_url) ==
    [p \in {"openai", "g4f", "pollinations"} |->
        CASE p = "openai" -> [api_key |-> api_key, base_url |-> "https://api.openai.com/v1"]
          [] p = "g4f" -> [api_key |-> "", base_url |-> ""]
          [] OTHER -> [api_key |-> "", base_url |-> base_url]]
ConfigChoices == {LLM_PROVIDERS(k, u) : k \in {"", "sk"}, u \in {"", "https://text.pollinations.ai/openai"}}
ProviderChoices == {"openai", "g4f", "pollinations", "azure"}
ModelChoices == {"", "gpt-4"}

\* Config.is_provider_configured
is_provider_configured(providers, provider) ==
    IF provider \notin DOMAIN providers THEN FALSE
    ELSE CASE provider = "openai" -> providers[provider].api_key # ""
           [] provider = "pollinations" -> providers[provider].base_url # ""
           [] provider = "g4f" -> TRUE
           [] OTHER -> FALSE

\* the validation of _generate_response without the model check of g4f
ConfigError_g4f_unchecked(providers, provider, model) ==
    IF provider \notin DOMAIN providers THEN TRUE
    ELSE CASE provider = "openai" -> providers[provider].api_key = "" \/ model = ""
           [] provider = "g4f" -> FALSE
           [] provider = "pollinations" -> providers[provider].base_url = ""
           [] OTHER -> FALSE

\* _generate_response, lines 29-55: TRUE when it raises ValueError before
\* the retry loop
ConfigError(providers, provider, model) ==
    IF provider \notin DOMAIN providers THEN TRUE
    ELSE CASE provider = "openai" -> providers[provider].api_key = "" \/ model = ""
           [] provider = "g4f" -> model = ""
           [] provider = "pollinations" -> providers[provider].base_url = ""
           [] OTHER -> FALSE

\* lines 60-69: the adapter of the provider answers, or no adapter exists
AdapterCall(provider, reply) ==
    IF provider \in {"openai", "g4f", "pollinations"} THEN reply ELSE Raises

\* what a call of _generate_response comes to: kind "return" with the text,
\* or the exception raised; log is the sequence of adapter calls and sleeps
Outcome(kind, text, log) == [kind |-> kind, text |-> text, log |-> log]

\* a loop that sleeps after every failed attempt, the last included
SleepsAfter_always(attempt) == TRUE

\* line 80: a failed attempt is followed by a sleep, not by the terminal error
SleepsAfter(attempt) == attempt < max_retries - 1

\* lines 58-85: for attempt in range(max_retries), from `attempt` on; the
\* next adapter call is the provider's n-th
RECURSIVE RetryLoop(_, _, _, _, _)
RetryLoop(attempt, provider, behaviour, n, log) ==
    IF attempt >= max_retries THEN Outcome("return", <<>>, log)
    ELSE LET reply == AdapterCall(provider, ReplyAt(behaviour, n))
             log1 == Append(log, "call")
         IN  IF ~reply.raises /\ reply.text # <<>> THEN Outcome("return", reply.text, log1)
             ELSE IF SleepsAfter(attempt)
                  THEN RetryLoop(attempt + 1, provider, behaviour, n + 1, Append(log1, "sleep"))
                  ELSE Outcome("RuntimeError", <<>>, log1)

\* _generate_response(provider, model, prompt)
generate_response(providers, provider, model, behaviour, n) ==
    IF ConfigError(providers, provider, model) THEN Outcome("ValueError", <<>>, <<>>)
    ELSE RetryLoop(0, provider, behaviour, n, <<>>)

Count(log, e) == Cardinality({i \in 1..Len(log) : log[i] = e})

\* a caller calls _generate_response(provider, model, prompt)
T_Call ==
    /\ tr.pc = "idle"
    /\ \E provider \in ProviderChoices, model \in ModelChoices,
          providers \in ConfigChoices, behaviour \in BehaviourChoices :
           LET r == generate_response(providers, provider, model, behaviour, 1) IN
           tr' = [pc |-> "done", provider |-> provider, model |-> model,
                  providers |-> providers, behaviour |-> behaviour,
                  kind |-> r.kind, text |-> r.text, log |-> r.log]
    /\ UNCHANGED <<mem_keys, mem_tasks, redis_db, redis_keys, now>>
    /\ UNCHANGED <<threads, sequential, gen, locks>>

\* the caller goes on with the response or the exception
T_Proceed ==
    /\ tr.pc = "done"
    /\ tr' = IdleTransport
    /\ UNCHANGED <<mem_keys, mem_tasks, redis_db, redis_keys, now>>
    /\ UNCHANGED <<threads, sequential, gen, locks>>

NextTransport == T_Call \/ T_Proceed

SpecTransport == Init /\ [][NextTransport]_vars

(* ------------------- llm.py: the generation operations ----------------- *)
\* the parameters of _generate_response (lines 18-24), in order, and those
\* with a default value
Parameters == <<"provider", "model", "prompt", "max_retries", "retry_delay">>
Defaulted == {"max_retries", "retry_delay"}

\* the arguments of the two calls: _generate_response(prompt=prompt) in
\* generate_script (line 188), _generate_response(prompt) in generate_terms
\* (line 245)
CallSite(op) ==
    IF op = "generate_script" THEN [npos |-> 0, kw |-> {"prompt"}]
    ELSE [npos |-> 1, kw |-> {}]

\* Python's binding of a call's arguments to the parameters
Bound(site) == {Parameters[k] : k \in 1..site.npos} \cup site.kw
Missing(site) == {Parameters[k] : k \in 1..Len(Parameters)} \ (Defaulted \cup Bound(site))
\* the value a parameter receives: both calls pass nothing but the prompt
ArgValue(site, name) == IF name \in Bound(site) THEN "prompt" ELSE ""

\* a call that passes a provider and a model: _generate_response("g4f", "gpt-4", prompt)
Call_generate_response_g4f(site, providers, behaviour, n) ==
    generate_response(providers, "g4f", "gpt-4", behaviour, n)
\* a call that passes the provider: _generate_response("pollinations", "", prompt)
Call_generate_response_pollinations(site, providers, behaviour, n) ==
    generate_response(providers, "pollinations", "", behaviour, n)

\* the call of _generate_response at the site: TypeError when a parameter
\* without default receives no argument, else the function runs
Call_generate_response(site, providers, behaviour, n) ==
    IF Missing(site) # {} THEN Outcome("TypeError", <<>>, <<>>)
    ELSE generate_response(providers, ArgValue(site, "provider"),
                           ArgValue(site, "model"), behaviour, n)

\* str.replace(c, "")
Without(t, c) == SelectSeq(t, LAMBDA x : x # c)
\* re.sub(open .* close, "", t) on a text of one line: the span from the
\* first `open` to the last `close` after it is removed
RemoveSpan(t, open, close) ==
    LET os == {k \in 1..Len(t) : t[k] = open} IN
    IF os = {} THEN t
    ELSE LET a == CHOOSE k \in os : \A m \in os : k <= m
             cs == {k \in (a + 1)..Len(t) : t[k] = close}
         IN  IF cs = {} THEN t
             ELSE LET b == CHOOSE k \in cs : \A m \in cs : m <= k
                  IN  SubSeq(t, 1, a - 1) \o SubSeq(t, b + 1, Len(t))
\* re.search(r"\[.*]", t).group() on a text of one line, <<>> without match
BracketMatch(t) ==
    LET os == {k \in 1..Len(t) : t[k] = "["} IN
    IF os = {} THEN <<>>
    ELSE LET a == CHOOSE k \in os : \A m \in os : k <= m
             cs == {k \in (a + 1)..Len(t) : t[k] = "]"}
         IN  IF cs = {} THEN <<>>
             ELSE SubSeq(t, a, CHOOSE k \in cs : \A m \in cs : m <= k)

\* format_response of generate_script (lines 167-184); splitting on blank
\* lines and joining again gives the text back
format_response(response) ==
    RemoveSpan(RemoveSpan(Without(Without(response, "*"), "#"), "[", "]"), "(", ")")

\* json.loads on integers, double-quoted strings, null, true, false and
\* arrays of these; Failed stands for JSONDecodeError
JsonScalar(t0) ==
    LET t == Strip(t0) IN
    IF IsDecimal(t) /\ (Len(t) = 1 \/ t[1] # "0") THEN PyInt(NatVal(t))
    ELSE IF Len(t) >= 2 /\ t[1] = "-" /\ IsDecimal(Tail(t)) /\ (Len(t) = 2 \/ t[2] # "0")
         THEN PyInt(-NatVal(Tail(t)))
    ELSE IF IsQuoted(t) /\ t[1] = "\"" THEN PyStr(SubSeq(t, 2, Len(t) - 1))
    ELSE IF t = <<"n", "u", "l", "l">> THEN PyNone
    ELSE IF t = <<"t", "r", "u", "e">> THEN PyBool(TRUE)
    ELSE IF t = <<"f", "a", "l", "s", "e">> THEN PyBool(FALSE)
    ELSE Failed
RECURSIVE JsonElems(_)
JsonElems(t) ==
    LET c == CommaAt(t, 1, "")
        head == JsonScalar(IF c = 0 THEN t ELSE SubSeq(t, 1, c - 1))
        rest == IF c = 0 THEN <<>> ELSE JsonElems(SubSeq(t, c + 1, Len(t)))
    IN  IF head = Failed \/ (rest # <<>> /\ rest[1] = Failed) THEN <<Failed>>
        ELSE <<head>> \o rest
json_loads(t0) ==
    LET t == Strip(t0) IN
    IF Len(t) >= 2 /\ t[1] = "[" /\ t[Len(t)] = "]"
    THEN IF Strip(SubSeq(t, 2, Len(t) - 1)) = <<>> THEN PyList(<<>>)
         ELSE LET es == JsonElems(SubSeq(t, 2, Len(t) - 1))
              IN  IF es[1] = Failed THEN Failed ELSE PyList(es)
    ELSE JsonScalar(t)

\* isinstance(v, list) and all(isinstance(term, str) for term in v)
IsListOfStr(v) == v.k = "list" /\ \A k \in 1..Len(v.l) : v.l[k].k = "str"
\* len(v) raises TypeError on a value without length
HasLen(v) == v.k \in {"list", "str"}

\* an `except ValueError` in place of `except Exception`
Catches_ValueError(kind) == kind = "ValueError"

\* `except Exception` (lines 200, 256) catches what the loop body raises
Catches(kind) == kind \in {"TypeError", "ValueError", "RuntimeError", "JSONDecodeError"}

\* one pass of the loop of generate_script (lines 186-204)
ScriptAttempt(g) ==
    LET r == Call_generate_response(CallSite(g.op), g.providers, g.behaviour, g.calls + 1)
        returned == r.kind = "return"
        script == IF returned /\ r.text # <<>> THEN format_response(r.text) ELSE g.final_script
        quota == returned /\ script # <<>> /\ Contains(script, T_quota)
        stop == returned /\ ~quota /\ script # <<>>
        thrown == IF ~returned THEN r.kind ELSE IF quota THEN "ValueError" ELSE "none"
        escapes == thrown # "none" /\ ~Catches(thrown)
    IN  [g EXCEPT !.final_script = script,
                  !.i = @ + 1,
                  !.attempts = @ + 1,
                  !.entered = @ + (IF r.kind = "TypeError" THEN 0 ELSE 1),
                  !.calls = @ + Count(r.log, "call"),
                  !.sleeps = @ + Count(r.log, "sleep"),
                  !.caught = Append(@, thrown),
                  !.exc = IF escapes THEN thrown ELSE "",
                  !.pc = IF escapes THEN "raised"
                         ELSE IF stop \/ g.i + 1 >= _max_retries THEN "after"
                         ELSE "loop"]

\* one pass of the loop of generate_terms (lines 243-270)
TermsAttempt(g) ==
    LET r == Call_generate_response(CallSite(g.op), g.providers, g.behaviour, g.calls + 1)
        returned == r.kind = "return"
        response == IF returned THEN r.text ELSE g.response
        early == returned /\ Contains(response, T_Error)
        parsed == json_loads(response)
        thrown == IF ~returned THEN r.kind
                  ELSE IF ~early /\ parsed = Failed THEN "JSONDecodeError"
                  ELSE "none"
        escapes == thrown # "none" /\ ~Catches(thrown)
        match == BracketMatch(response)
        repaired == IF response # <<>> /\ match # <<>> /\ json_loads(match) # Failed
                    THEN json_loads(match) ELSE g.search_terms
        terms == IF thrown # "none" THEN repaired
                 ELSE IF early THEN g.search_terms
                 ELSE parsed
        skip == thrown = "none" /\ ~early /\ ~IsListOfStr(parsed)
        lenfails == ~skip /\ ~early /\ Truthy(terms) /\ ~HasLen(terms)
        stop == ~skip /\ Truthy(terms) /\ HasLen(terms)
    IN  [g EXCEPT !.response = response,
                  !.search_terms = terms,
                  !.i = @ + 1,
                  !.attempts = @ + 1,
                  !.entered = @ + (IF r.kind = "TypeError" THEN 0 ELSE 1),
                  !.calls = @ + Count(r.log, "call"),
                  !.sleeps = @ + Count(r.log, "sleep"),
                  !.caught = Append(@, thrown),
                  !.ret = IF early /\ ~escapes THEN PyStr(response) ELSE @,
                  !.exc = IF escapes THEN thrown ELSE IF lenfails THEN "TypeError" ELSE "",
                  !.pc = IF escapes \/ lenfails THEN "raised"
                         ELSE IF early THEN "returned"
                         ELSE IF stop \/ g.i + 1 >= _max_retries THEN "after"
                         ELSE "loop"]

\* a caller calls generate_script or generate_terms
G_Call ==
    /\ gen.pc = "idle"
    /\ \E op \in {"generate_script", "generate_terms"},
          providers \in ConfigChoices, behaviour \in BehaviourChoices :
           gen' = [IdleGen EXCEPT !.pc = "loop", !.op = op,
                                  !.providers = providers, !.behaviour = behaviour]
    /\ UNCHANGED <<mem_keys, mem_tasks, redis_db, redis_keys, now>>
    /\ UNCHANGED <<threads, sequential, tr, locks>>

G_ScriptAttempt ==
    /\ gen.pc = "loop"
    /\ gen.op = "generate_script"
    /\ gen.i < _max_retries
    /\ gen' = ScriptAttempt(gen)
    /\ UNCHANGED <<mem_keys, mem_tasks, redis_db, redis_keys, now>>
    /\ UNCHANGED <<threads, sequential, tr, locks>>

G_TermsAttempt ==
    /\ gen.pc = "loop"
    /\ gen.op = "generate_terms"
    /\ gen.i < _max_retries
    /\ gen' = TermsAttempt(gen)
    /\ UNCHANGED <<mem_keys, mem_tasks, redis_db, redis_keys, now>>
    /\ UNCHANGED <<threads, sequential, tr, locks>>

\* after the loop: return final_script.strip() (line 209), return
\* search_terms (line 273)
G_Return ==
    /\ gen.pc = "after"
    /\ gen' = [gen EXCEPT !.pc = "returned",
                          !.ret = IF gen.op = "generate_script"
                                  THEN PyStr(Strip(gen.final_script))
                                  ELSE gen.search_terms]
    /\ UNCHANGED <<mem_keys, mem_tasks, redis_db, redis_keys, now>>
    /\ UNCHANGED <<threads, sequential, tr, locks>>

\* the caller goes on with the value or the exception
G_Proceed ==
    /\ gen.pc \in {"returned", "raised"}
    /\ gen' = IdleGen
    /\ UNCHANGED <<mem_keys, mem_tasks, redis_db, redis_keys, now>>
    /\ UNCHANGED <<threads, sequential, tr, locks>>

NextGenerate == G_Call \/ G_ScriptAttempt \/ G_TermsAttempt \/ G_Return \/ G_Proceed

SpecGenerate == Init /\ [][NextGenerate]_vars

(* ------------------ threads and the mutex of each store ---------------- *)
PoolOps == {"MemoryState.update_task", "MemoryState.get_task", "MemoryState.delete_task",
            "StateManager.update_task", "StateManager.cleanup_old_tasks"}
PoolKwargs(op) ==
    IF op = "MemoryState.update_task" THEN {Kw0, KwError}
    ELSE IF op = "StateManager.update_task" THEN {Kw0, KwCreated}
    ELSE {Kw0}

\* the record StateManager.update_task creates (lines 207-214)
StateManager_created(task_id, t1, t2) ==
    [f \in {"id", "state", "progress", "error", "created_at", "updated_at"} |->
        CASE f = "id" -> PyStr(task_id)
          [] f = "state" -> PyInt(TASK_STATE_PENDING)
          [] f = "progress" -> PyInt(0)
          [] f = "error" -> PyNone
          [] f = "created_at" -> isoformat(t1)
          [] OTHER -> isoformat(t2)]
\* StateManager.tasks after update_task(task_id, **kwargs) (lines 206-221)
StateManager_updated(m, task_id, kwargs, t1, t2, t3) ==
    LET rec == IF task_id \in DOMAIN m.tasks THEN m.tasks[task_id]
               ELSE StateManager_created(task_id, t1, t2)
    IN  [m EXCEPT !.tasks = [x \in (DOMAIN m.tasks) \cup {task_id} |->
                                IF x = task_id
                                THEN Put(Merge(rec, kwargs), "updated_at", isoformat(t3))
                                ELSE m.tasks[x]],
                  !.keys = IF task_id \in DOMAIN m.tasks THEN @ ELSE Append(@, task_id)]
\* lines 224-227: a log call is reached
StateManager_update_raises(kwargs) ==
    /\ "state" \in DOMAIN kwargs \/ ("error" \in DOMAIN kwargs /\ Truthy(kwargs["error"]))
    /\ LogRaises

\* cleanup_old_tasks (lines 266-278) at clock reading t: fromisoformat
\* raises on a created_at that is no timestamp; else the old tasks are
\* deleted one by one, each deletion followed by a log call
StateManager_unparsable(m) ==
    \E k \in 1..Len(m.keys) : ReadingOf(m.tasks[m.keys[k]]["created_at"]) < 0
StateManager_old(m, t, max_age) ==
    SelectSeq(m.keys, LAMBDA x : t - ReadingOf(m.tasks[x]["created_at"]) > max_age)
StateManager_cleanup_raises(m, t, max_age) ==
    \/ StateManager_unparsable(m)
    \/ (StateManager_old(m, t, max_age) # <<>> /\ LogRaises)
StateManager_cleaned(m, t, max_age) ==
    IF StateManager_unparsable(m) THEN m
    ELSE LET old == StateManager_old(m, t, max_age)
             gone == IF old = <<>> THEN {}
                     ELSE IF LogRaises THEN {old[1]}
                     ELSE {old[k] : k \in 1..Len(old)}
         IN  [m EXCEPT !.tasks = [x \in (DOMAIN m.tasks) \ gone |-> m.tasks[x]],
                       !.keys = SelectSeq(m.keys, LAMBDA x : x \notin gone)]

\* a lock that stays held when the locked region raises
with_exit_on_return(holder, raised) == IF raised THEN holder ELSE "free"

\* `with self.lock:` leaves the block: the lock is released, whether the
\* block returned or raised
with_exit(holder, raised) == "free"

OnMemory(op) == op \in {"MemoryState.update_task", "MemoryState.get_task", "MemoryState.delete_task"}
\* the lock the operation takes: MemoryState.lock or StateManager.lock
LockOf(op) == IF OnMemory(op) THEN lock ELSE mgr.lock

\* a thread calls an operation of a store
P_Call(t) ==
    /\ pool[t].pc = "idle"
    /\ \E op \in PoolOps, task_id \in ThreadTaskIds, max_age \in {0} :
       \E kwargs \in PoolKwargs(op) :
           pool' = [pool EXCEPT ![t] = [IdleThread EXCEPT !.pc = "acquire", !.op = op,
                                           !.task_id = task_id, !.kwargs = kwargs,
                                           !.max_age = max_age]]
    /\ UNCHANGED <<mem_keys, mem_tasks, redis_db, redis_keys, now>>
    /\ UNCHANGED <<threads, sequential, llm, mgr>>

\* with self.lock: the thread goes on when the lock is free
P_Acquire(t) ==
    /\ pool[t].pc = "acquire"
    /\ LockOf(pool[t].op) = "free"
    /\ IF OnMemory(pool[t].op)
       THEN lock' = t /\ UNCHANGED mgr
       ELSE mgr' = [mgr EXCEPT !.lock = t] /\ UNCHANGED lock
    /\ pool' = [pool EXCEPT ![t].pc = "locked"]
    /\ UNCHANGED <<mem_keys, mem_tasks, redis_db, redis_keys, now>>
    /\ UNCHANGED <<writer, reader, sequential, llm>>

\* the statements inside the with block, up to the point where the block
\* returns or raises
P_Body(t) ==
    /\ pool[t].pc = "locked"
    /\ LET me == pool[t] IN
       \E t3 \in now..MaxClock :
           CASE me.op = "MemoryState.update_task" ->
                    /\ MemoryState_update_task(me.task_id, TASK_STATE_PROCESSING, 0,
                                               me.kwargs, now, now, t3)
                    /\ pool' = [pool EXCEPT ![t].pc = "exit",
                                            ![t].raised = MemoryState_update_raises(me.kwargs)]
                    /\ UNCHANGED mgr
             [] me.op = "MemoryState.get_task" ->
                    /\ t3 = now
                    /\ pool' = [pool EXCEPT ![t].pc = "exit"]
                    /\ UNCHANGED <<mem_keys, mem_tasks, now, mgr>>
             [] me.op = "MemoryState.delete_task" ->
                    /\ t3 = now
                    /\ MemoryState_delete_task(me.task_id)
                    /\ pool' = [pool EXCEPT ![t].pc = "exit",
                                            ![t].raised = (me.task_id \in DOMAIN mem_tasks /\ LogRaises)]
                    /\ UNCHANGED <<now, mgr>>
             [] me.op = "StateManager.update_task" ->
                    /\ mgr' = StateManager_updated(mgr, me.task_id, me.kwargs, now, now, t3)
                    /\ now' = t3
                    /\ pool' = [pool EXCEPT ![t].pc = "exit",
                                            ![t].raised = StateManager_update_raises(me.kwargs)]
                    /\ UNCHANGED <<mem_keys, mem_tasks>>
             [] OTHER ->
                    /\ mgr' = StateManager_cleaned(mgr, t3, me.max_age)
                    /\ now' = t3
                    /\ pool' = [pool EXCEPT ![t].pc = "exit",
                                            ![t].raised = StateManager_cleanup_raises(mgr, t3, me.max_age)]
                    /\ UNCHANGED <<mem_keys, mem_tasks>>
    /\ UNCHANGED <<redis_db, redis_keys, lock>>
    /\ UNCHANGED <<writer, reader, sequential, llm>>

\* the with block is left; a raised exception then passes through the
\* except clause to the caller
P_Exit(t) ==
    /\ pool[t].pc = "exit"
    /\ IF OnMemory(pool[t].op)
       THEN lock' = with_exit(t, pool[t].raised) /\ UNCHANGED mgr
       ELSE mgr' = [mgr EXCEPT !.lock = with_exit(t, pool[t].raised)] /\ UNCHANGED lock
    /\ pool' = [pool EXCEPT ![t].pc = "done"]
    /\ UNCHANGED <<mem_keys, mem_tasks, redis_db, redis_keys, now>>
    /\ UNCHANGED <<writer, reader, sequential, llm>>

\* the thread goes on after the call
P_Proceed(t) ==
    /\ pool[t].pc = "done"
    /\ pool' = [pool EXCEPT ![t] = IdleThread]
    /\ UNCHANGED <<mem_keys, mem_tasks, redis_db, redis_keys, now>>
    /\ UNCHANGED <<threads, sequential, llm, mgr>>

NextLock ==
    \E t \in Threads : P_Call(t) \/ P_Acquire(t) \/ P_Body(t) \/ P_Exit(t) \/ P_Proceed(t)

\* a fair scheduler: a thread inside a call keeps running, and a thread
\* waiting for a lock that is free again and again gets it
FairLock ==
    \A t \in Threads :
        /\ WF_vars(P_Body(t))
        /\ WF_vars(P_Exit(t))
        /\ SF_vars(P_Acquire(t))

SpecLock == Init /\ [][NextLock]_vars /\ FairLock

(* ------------------------------ claims --------------------------------- *)
\* what get_task(id) returns on each backend in the current state
MemNow(task_id) == MemoryState_get_task(mem_tasks, task_id)
RedNow(task_id) == RedisState_get_task(redis_db, task_id)
Clamp0to100(p) == IF p < 0 THEN 0 ELSE IF p > 100 THEN 100 ELSE p
Updated == call.op = "update_task"

\* C1: after update_task(id, progress=p), on an unseen or an existing id,
\* get_task(id) reports progress = min(max(p, 0), 100), on both backends.
C1_ProgressClamped ==
    Updated =>
        /\ MemNow(call.task_id).rec["progress"] = PyInt(Clamp0to100(call.progress))
        /\ RedNow(call.task_id).rec["progress"] = PyInt(Clamp0to100(call.progress))

\* C2: update_task(id, state=s, **fields) on an existing record leaves a
\* record whose state is s, whose supplied fields hold the supplied values
\* and whose other fields (progress and updated_at apart) are as before.
MergedInto(pre, post) ==
    /\ post.found
    /\ post.rec["state"] = PyInt(call.state)
    /\ \A f \in DOMAIN call.kwargs : post.rec[f] = call.kwargs[f]
    /\ \A f \in (DOMAIN pre.rec) \ ((DOMAIN call.kwargs) \cup {"state", "progress", "updated_at"}) :
           f \in DOMAIN post.rec /\ post.rec[f] = pre.rec[f]
C2_UpdateMerges ==
    (Updated /\ call.mem_pre.found /\ call.red_pre.found) =>
        /\ MergedInto(call.mem_pre, MemNow(call.task_id))
        /\ MergedInto(call.red_pre, RedNow(call.task_id))

\* C3: every stored record, on either backend, has 0 <= progress <= 100.
ProgressInRange(rec) == rec["progress"].k = "int" /\ rec["progress"].n \in 0..100
C3_ProgressInvariant ==
    /\ \A id \in DOMAIN mem_tasks : ProgressInRange(MemNow(id).rec)
    /\ \A id \in DOMAIN redis_db : ProgressInRange(RedNow(id).rec)

\* C4: update_task on an unseen task_id, then get_task: the record has that
\* task_id and the default state, and created_at equals updated_at.
C4_FirstWrite ==
    (Updated /\ call.fresh /\ call.defaulted /\ call.kwargs = Kw0) =>
        /\ MemNow(call.task_id).found
        /\ MemNow(call.task_id).rec["task_id"] = PyStr(call.task_id)
        /\ MemNow(call.task_id).rec["state"] = PyInt(TASK_STATE_PROCESSING)
        /\ MemNow(call.task_id).rec["created_at"] = MemNow(call.task_id).rec["updated_at"]

\* C5: while a record exists, update_task (with any extra fields) never
\* changes its created_at, never decreases its updated_at and refreshes
\* updated_at on every write, on both backends.
Timestamped(pre, post) ==
    /\ post.found
    /\ "created_at" \in DOMAIN post.rec /\ "updated_at" \in DOMAIN post.rec
    /\ pre.found => /\ "created_at" \in DOMAIN pre.rec
                    /\ post.rec["created_at"] = pre.rec["created_at"]
                    /\ ReadingOf(post.rec["updated_at"]) >= ReadingOf(pre.rec["updated_at"])
    /\ post.rec["updated_at"] = isoformat(now)
C5_Timestamps ==
    Updated =>
        /\ Timestamped(call.mem_pre, MemNow(call.task_id))
        /\ Timestamped(call.red_pre, RedNow(call.task_id))

\* C6: after any sequence of update_task and delete_task calls applied to
\* both backends, get_task(id) is absent on both, or returns records with
\* the same field names and the same state, progress and supplied values.
C6_BackendsAgree ==
    \A id \in TaskIds :
        /\ MemNow(id).found = RedNow(id).found
        /\ MemNow(id).found =>
               /\ DOMAIN MemNow(id).rec = DOMAIN RedNow(id).rec
               /\ \A f \in (DOMAIN MemNow(id).rec) \cap (DOMAIN RedNow(id).rec) :
                      f \notin {"created_at", "updated_at"} => MemNow(id).rec[f] = RedNow(id).rec[f]

\* the records of each backend in its enumeration order
AllMem == [i \in 1..Len(mem_keys) |-> mem_tasks[mem_keys[i]]]
AllRed == [i \in 1..Len(redis_keys) |-> RedNow(redis_keys[i]).rec]
\* positions [(page-1)*page_size, page*page_size) of s, clipped to s
ClipSlice(s, page, page_size) ==
    LET lo == (page - 1) * page_size
        hi == IF page * page_size < Len(s) THEN page * page_size ELSE Len(s)
    IN  IF lo < hi THEN [i \in 1..(hi - lo) |-> s[lo + i]] ELSE <<>>
Listed == call.op = "get_all_tasks"
PageCount(n, page_size) == (n + page_size - 1) \div page_size
\* pages p..last of the in-process backend, concatenated
RECURSIVE MemPages(_, _, _)
MemPages(p, last, page_size) ==
    IF p > last THEN <<>>
    ELSE MemoryState_get_all_tasks(mem_keys, mem_tasks, p, page_size).tasks
             \o MemPages(p + 1, last, page_size)

\* C9: in-process backend with N tasks, page >= 1, page_size >= 1:
\* get_all_tasks returns total = N and the slice [(page-1)*page_size,
\* page*page_size) of the insertion order clipped to N, and the pages
\* 1..ceil(N/page_size) concatenated hold every task id exactly once.
C9_MemPagination ==
    /\ Listed =>
           /\ listing.mem.total = Len(mem_keys)
           /\ listing.mem.tasks = ClipSlice(AllMem, listing.page, listing.page_size)
    /\ \A page_size \in 1..MaxPageSize :
           LET cat == MemPages(1, PageCount(Len(mem_keys), page_size), page_size)
           IN  [i \in 1..Len(cat) |-> cat[i]["task_id"]]
                   = [i \in 1..Len(mem_keys) |-> PyStr(mem_keys[i])]
C9_Witness ==
    /\ Listed
    /\ Len(mem_keys) = 3
    /\ listing.page = 2 /\ listing.page_size = 2
    /\ Len(listing.mem.tasks) = 1
    /\ listing.mem.tasks[1]["task_id"] = PyStr(mem_keys[3])

\* C10: persisted backend with N tasks and no concurrent writes, page >= 1,
\* page_size >= 1: get_all_tasks returns total = N and the records at
\* positions [(page-1)*page_size, page*page_size) of the enumeration order,
\* clipped to N, whatever the scan batches are.
C10_RedisPagination ==
    Listed =>
        /\ listing.red.total = Len(redis_keys)
        /\ listing.red.tasks = ClipSlice(AllRed, listing.page, listing.page_size)

\* C7: in-process backend: no read (get_task, get_all_tasks, or a later use
\* of the record they returned) concurrent with an update_task that writes
\* several fields sees only some of that update's fields applied.
C7_NoTornRead ==
    reader.obs.found =>
        \A f, g \in DOMAIN reader.w_fields :
            (f \in DOMAIN reader.obs.rec /\ reader.obs.rec[f] = reader.w_fields[f])
                => (g \in DOMAIN reader.obs.rec /\ reader.obs.rec[g] = reader.w_fields[g])

\* C8: persisted backend: what get_task returns is the previous hash
\* overlaid with exactly the fields update_task has written so far, so a
\* get_task between two of its hset calls returns part new, part old.
Overlay(pre, fields, done) ==
    [f \in (DOMAIN pre) \cup done |->
        convert_to_original_type(IF f \in done THEN Str(fields[f]) ELSE pre[f])]
C8_PartialRead ==
    /\ reader.obs.found =>
           reader.obs.rec = Overlay(reader.w_pre, reader.w_fields, reader.w_done)
    /\ (~reader.obs.found) => (DOMAIN reader.w_pre) \cup reader.w_done = {}
C8_Witness ==
    /\ reader.obs.found
    /\ reader.torn
    /\ "state" \in DOMAIN reader.w_pre
    /\ reader.obs.rec["state"] = PyInt(TASK_STATE_FAILED)
    /\ reader.w_pre["state"] = Str(PyInt(TASK_STATE_PROCESSING))
    /\ "script" \in DOMAIN reader.w_fields
    /\ "script" \notin DOMAIN reader.obs.rec

(* ------------------- single calls on the store, continued -------------- *)
store == <<mem_keys, mem_tasks, redis_db, redis_keys>>
Called(op) == call.op = "none" /\ call'.op = op
InKeys(keys, task_id) == \E i \in 1..Len(keys) : keys[i] = task_id

\* C11: persisted backend: every field update_task wrote as an int, a string
\* (a string of digits or one spelling a literal included) or a sequence of
\* strings is returned by get_task with the same type and the same value.
C11_RoundTrip ==
    Updated =>
        /\ RedNow(call.task_id).found
        /\ \A f \in DOMAIN call.kwargs :
               /\ f \in DOMAIN RedNow(call.task_id).rec
               /\ RedNow(call.task_id).rec[f] = call.kwargs[f]

\* C12: get_task(id) returns the record the store holds for id after the
\* updates and deletes completed before it (on the persisted backend its
\* decoded hash), absent when there is none; it never raises and leaves
\* the store unchanged.
C12_GetTask ==
    [][Called("get_task") =>
          LET id == call'.task_id IN
          /\ store' = store
          /\ ~call'.mem_raised
          /\ ~call'.red_raised
          /\ call'.mem_ret.found = InKeys(mem_keys, id)
          /\ call'.red_ret.found = InKeys(redis_keys, id)
          /\ call'.mem_ret.found =>
                 /\ call'.mem_ret.rec = mem_tasks[id]
                 /\ call'.mem_ret.rec["task_id"] = PyStr(id)
          /\ call'.red_ret.found =>
                 /\ DOMAIN call'.red_ret.rec = DOMAIN redis_db[id]
                 /\ \A f \in DOMAIN redis_db[id] :
                        call'.red_ret.rec[f] = convert_to_original_type(redis_db[id][f])
                 /\ call'.red_ret.rec["task_id"] = PyStr(id)
          /\ (~call'.mem_ret.found) => call'.mem_ret = Absent
          /\ (~call'.red_ret.found) => call'.red_ret = Absent]_vars
C12_Witness ==
    /\ call.op = "get_task"
    /\ call.mem_ret.found
    /\ call.red_ret.found
    /\ "videos" \in DOMAIN call.mem_ret.rec
    /\ "videos" \in DOMAIN call.red_ret.rec
    /\ \E other \in TaskIds : ~InKeys(mem_keys, other)

\* C13: delete_task(id) returns normally whether or not id has a record;
\* afterwards get_task(id) is absent and every other record is unchanged.
C13_DeleteTask ==
    [][Called("delete_task") =>
          LET id == call'.task_id IN
          /\ ~call'.mem_raised
          /\ ~call'.red_raised
          /\ ~MemoryState_get_task(mem_tasks', id).found
          /\ ~RedisState_get_task(redis_db', id).found
          /\ \A other \in TaskIds \ {id} :
                 /\ MemoryState_get_task(mem_tasks', other) = MemoryState_get_task(mem_tasks, other)
                 /\ RedisState_get_task(redis_db', other) = RedisState_get_task(redis_db, other)]_vars

\* C14: in every reachable state a record has a non-empty error only when
\* its state is FAILED.
ErrorOnlyWhenFailed(got) ==
    (got.found /\ "error" \in DOMAIN got.rec /\ Truthy(got.rec["error"]))
        => ("state" \in DOMAIN got.rec /\ got.rec["state"] = PyInt(TASK_STATE_FAILED))
C14_ErrorOnlyWhenFailed ==
    \A task_id \in TaskIds :
        ErrorOnlyWhenFailed(MemNow(task_id)) /\ ErrorOnlyWhenFailed(RedNow(task_id))

(* --------------------- claims on the transport layer ------------------- *)
\* the provider of the call is unknown or lacks a required field: the api
\* key or the model for openai, the model for g4f, the base url for
\* pollinations
Misconfigured ==
    \/ ~is_provider_configured(tr.providers, tr.provider)
    \/ (tr.provider \in {"openai", "g4f"} /\ tr.model = "")
\* the attempts whose adapter call returns a non-empty response
GoodAttempts ==
    {n \in 1..max_retries : ~ReplyAt(tr.behaviour, n).raises /\ ReplyAt(tr.behaviour, n).text # <<>>}
FirstGood == CHOOSE n \in GoodAttempts : \A m \in GoodAttempts : n <= m

\* C15: with a validly configured provider _generate_response calls the
\* adapter at most max_retries (3) times, returns the first non-empty
\* response without a further call, sleeps between consecutive attempts
\* only, and raises the terminal error after max_retries failed attempts.
C15_TransportRetry ==
    (tr.pc = "done" /\ ~Misconfigured) =>
        /\ Count(tr.log, "call") <= max_retries
        /\ GoodAttempts # {} =>
               /\ tr.kind = "return"
               /\ tr.text = ReplyAt(tr.behaviour, FirstGood).text
               /\ Count(tr.log, "call") = FirstGood
        /\ GoodAttempts = {} =>
               /\ tr.kind = "RuntimeError"
               /\ Count(tr.log, "call") = max_retries
        /\ \A k \in 1..Len(tr.log) : tr.log[k] = (IF k % 2 = 1 THEN "call" ELSE "sleep")
        /\ tr.log # <<>> /\ tr.log[Len(tr.log)] = "call"
        /\ Count(tr.log, "sleep") = Count(tr.log, "call") - 1
C15_Witness ==
    /\ tr.pc = "done"
    /\ ~Misconfigured
    /\ tr.kind = "RuntimeError"
    /\ tr.log = <<"call", "sleep", "call", "sleep", "call">>
    /\ tr.behaviour = <<Replies(<<>>), Raises>>

\* C16: with an unknown provider or a missing required field
\* _generate_response raises before the first attempt: no adapter call
\* and no sleep.
C16_ConfigFailsFast ==
    (tr.pc = "done" /\ Misconfigured) => (tr.kind = "ValueError" /\ tr.log = <<>>)
C16_Witness ==
    /\ tr.pc = "done"
    /\ tr.provider = "g4f"
    /\ tr.model = ""
    /\ tr.kind = "ValueError"
    /\ tr.log = <<>>
    /\ ~ReplyAt(tr.behaviour, 1).raises

(* ------------------ claims on the generation operations ---------------- *)
Returned == gen.pc = "returned"
\* openai without api key, pollinations without base url, and no model
\* passed by either call: every provider lacks a required field
NothingConfigured == gen.providers = LLM_PROVIDERS("", "")
AllConfigured == gen.providers = LLM_PROVIDERS("sk", "https://text.pollinations.ai/openai")
AlwaysRaises == \A k \in 1..Len(gen.behaviour) : gen.behaviour[k] = Raises
AlwaysQuota == \A k \in 1..Len(gen.behaviour) : gen.behaviour[k] = Replies(T_quota)

\* C17: a configuration error is not retried: when the provider's required
\* configuration is missing, generate_script and generate_terms make
\* exactly one semantic-layer attempt and enter the transport layer no more
\* than that once.
C17_ConfigErrorNotRetried ==
    (Returned /\ NothingConfigured) => (gen.attempts = 1 /\ gen.entered <= 1)

\* C18: every call of generate_script and generate_terms ends, after at
\* most 5 semantic-layer attempts, by returning a value (early on a result,
\* or exhausted after the fifth attempt); whatever the provider does, no
\* exception escapes.
C18_Terminates ==
    /\ [](/\ gen.pc # "raised"
          /\ gen.attempts <= _max_retries
          /\ gen.pc = "loop" => (gen.i < _max_retries /\ gen.attempts = gen.i)
          /\ Returned => gen.ret.k \in {"str", "list"})
    /\ [][/\ gen.pc = "loop" => (gen'.pc \in {"loop", "after", "returned"} /\ gen'.i = gen.i + 1)
          /\ gen.pc = "after" => gen'.pc = "returned"]_gen
C18_Witness ==
    /\ Returned
    /\ gen.op = "generate_terms"
    /\ gen.attempts = _max_retries
    /\ gen.ret = PyList(<<>>)
    /\ gen.behaviour = <<Replies(T_hi), Raises>>
    /\ Len(gen.caught) = _max_retries

\* C19: with a provider that fails on every call generate_script makes
\* exactly 5 semantic-layer attempts, each entering the transport layer
\* and, through it, calling the provider, and then returns the empty
\* string without raising.
C19_ExhaustionCallsProvider ==
    (gen.pc \in {"returned", "raised"} /\ gen.op = "generate_script" /\ AllConfigured /\ AlwaysRaises) =>
        /\ Returned
        /\ gen.attempts = _max_retries
        /\ gen.entered = _max_retries
        /\ gen.calls >= _max_retries
        /\ gen.ret = PyStr(<<>>)

\* C20: with a provider that returns the quota marker on every call
\* generate_script treats every reply as a failed attempt and retries, and
\* the provider is called once per semantic-layer attempt: 5 calls, not 1.
C20_QuotaRetried ==
    (gen.pc \in {"returned", "raised"} /\ gen.op = "generate_script" /\ AllConfigured /\ AlwaysQuota) =>
        /\ gen.attempts = _max_retries
        /\ gen.caught = [k \in 1.._max_retries |-> "ValueError"]
        /\ gen.calls = _max_retries

\* the replies either operation accepts, and the value it builds from one
ValidReply(op, reply) ==
    /\ ~reply.raises
    /\ IF op = "generate_script"
       THEN /\ format_response(reply.text) # <<>>
            /\ ~Contains(format_response(reply.text), T_quota)
       ELSE /\ json_loads(reply.text) # Failed
            /\ IsListOfStr(json_loads(reply.text))
            /\ json_loads(reply.text).l # <<>>
Built(op, reply) ==
    IF op = "generate_script" THEN PyStr(Strip(format_response(reply.text)))
    ELSE json_loads(reply.text)
ValidAt == {k \in 1..Len(gen.behaviour) : ValidReply(gen.op, gen.behaviour[k])}
FirstValid == CHOOSE k \in ValidAt : \A m \in ValidAt : k <= m
Ended == gen.pc \in {"returned", "raised"}

\* C21: when the provider's k-th reply is the first valid one (a non-empty
\* script without the quota marker, a non-empty JSON array of strings), the
\* operation returns the result built from that reply and the provider has
\* been called k times, no more; valid at once means called exactly once.
C21_EarlyStop ==
    (Ended /\ AllConfigured /\ ValidAt # {}) =>
        /\ Returned
        /\ gen.ret = Built(gen.op, gen.behaviour[FirstValid])
        /\ gen.calls = FirstValid

C23_LoggingInert ==
    /\ call.op = "update_task" =>
           /\ ~call.mem_raised /\ ~call.red_raised
           /\ MemNow(call.task_id).found /\ RedNow(call.task_id).found
    /\ call.op = "delete_task" =>
           /\ ~call.mem_raised /\ ~call.red_raised
           /\ ~MemNow(call.task_id).found /\ ~RedNow(call.task_id).found

(* --------------------------- the stores' mutex ------------------------- *)
\* a lock is free or held by a thread that is inside the locked region of
\* an operation of that store
HeldInside(l, onmem) ==
    l # "free" =>
        /\ l \in Threads
        /\ pool[l].pc \in {"locked", "exit"}
        /\ OnMemory(pool[l].op) = onmem

\* C25: the mutex is released at the end of every update_task, get_task
\* and delete_task (and cleanup_old_tasks), also when the operation raises
\* inside the locked region: it is never held by a thread that is not
\* executing a store operation, and under a fair scheduler every thread's
\* store call completes.
C25_MutexReleased ==
    /\ [](HeldInside(lock, TRUE) /\ HeldInside(mgr.lock, FALSE))
    /\ \A t \in Threads : (pool[t].pc = "acquire") ~> (pool[t].pc = "done")
C25_Witness ==
    /\ pool["t1"].pc = "done"
    /\ pool["t1"].raised
    /\ pool["t1"].op = "MemoryState.delete_task"
    /\ pool["t2"].op = "MemoryState.update_task"
    /\ pool["t2"].pc = "locked"
    /\ lock = "t2"

====
